---- MODULE Spec2Model ----
(***************************************************************************)
(* Model of the ledger of src/src/bank.rs: Bank::batch_process and         *)
(* Bank::process_transaction over the accounts vector and the transaction  *)
(* record map.  Balances are f32: every sum and difference is rounded to   *)
(* a 24-bit significand (round to nearest, ties to even).  Amounts are     *)
(* positive integer multiples of one unit, so the rounding is computed on   *)
(* integers; infinities and NaN are outside the amounts of the model.      *)
(***************************************************************************)
EXTENDS Integers, Sequences, FiniteSets, TLC

VARIABLES accounts, transactions, result, pos, tx, account, stderr,
          seen, used, unique, report

vars == <<accounts, transactions, result, pos, tx, account, stderr,
          seen, used, unique, report>>

\* ---------------------------------------------------------------- bounds
MaxClient == 2
MaxTxId == 1
MaxBatch == 3
\* the longer batches of one client
MaxTxIdOneClient == 2
MaxBatchOneClient == 5

\* ------------------------------------------------------------- constants
\* f32 has a 24-bit significand
MantissaDigits == 24

INVALID_TRANSACTION_DATA_NO_AMOUNT == "Invalid transaction data: missing amount"

\* Option<f32>: None is the empty sequence, Some(a) the sequence of a
None == <<>>
Some(a) == <<a>>
Unwrap(o) == o[1]

ClientIds == 1..MaxClient
TxIds == 1..MaxTxId

\* the amounts of the input rows: f32 values, one of them large enough for
\* sums to need more than 24 bits
Amounts == {1, 2^MantissaDigits}

TransactionType == {"Deposit", "Withdrawal", "Dispute", "Resolve", "Chargeback"}
TransactionStatus == {"Processed", "Disputed"}

\* the rows the input can hold for these clients and ids: an amount on
\* deposits and withdrawals (possibly absent), none on the other three
Rows(clients, ids) ==
  [tx_type : {"Deposit", "Withdrawal"}, client_id : clients, id : ids,
   amount : {Some(a) : a \in Amounts} \cup {None}]
  \cup
  [tx_type : {"Dispute", "Resolve", "Chargeback"}, client_id : clients,
   id : ids, amount : {None}]

Transaction == Rows(ClientIds, TxIds)

\* the rows of a batch in which every row is of client 1
TransactionOneClient == Rows({1}, 1..MaxTxIdOneClient)

\* ------------------------------------------------------------ f32 arithmetic
Abs(n) == IF n < 0 THEN -n ELSE n

RECURSIVE Ulp(_, _)
\* the spacing of the f32 values around magnitude m
Ulp(m, u) == IF m < (2^MantissaDigits) * u THEN u ELSE Ulp(m, 2 * u)

\* the f32 nearest to the integer n, ties to even
F32(n) ==
  LET m == Abs(n)
      u == Ulp(m, 1)
      q == m \div u
      r == m % u
      q2 == IF 2 * r > u \/ (2 * r = u /\ q % 2 = 1) THEN q + 1 ELSE q
  IN  IF n < 0 THEN -(q2 * u) ELSE q2 * u

\* ------------------------------------------------------------------ accounts
AccountNew(client_id) ==
  [client_id |-> client_id, available |-> 0, held |-> 0, total |-> 0,
   locked |-> FALSE]

\* iter().position(|x| x.client_id == client_id), 0 for None
Position(accts, client_id) ==
  IF \E i \in 1..Len(accts) : accts[i].client_id = client_id
  THEN CHOOSE i \in 1..Len(accts) :
         /\ accts[i].client_id = client_id
         /\ \A j \in 1..(i - 1) : accts[j].client_id # client_id
  ELSE 0

\* a removal that drops the last element whatever the index (Vec::pop)
Remove_Last(s, i) == [j \in 1..(Len(s) - 1) |-> s[j]]

\* Vec::remove(i)
Remove(s, i) == [j \in 1..(Len(s) - 1) |-> IF j < i THEN s[j] ELSE s[j + 1]]

\* get_account that reads the account and leaves it in the vector
GetAccount_NoRemove(accts, client_id) ==
  LET i == Position(accts, client_id)
  IN  IF i = 0 THEN [found |-> FALSE, accounts |-> accts]
      ELSE [found |-> TRUE, account |-> accts[i], accounts |-> accts]

\* get_account: the account is taken out of the vector
GetAccount(accts, client_id) ==
  LET i == Position(accts, client_id)
  IN  IF i = 0 THEN [found |-> FALSE, accounts |-> accts]
      ELSE [found |-> TRUE, account |-> accts[i], accounts |-> Remove(accts, i)]

\* lines 84-87: the account the handler works on, and the vector it leaves
Fetch(accts, client_id) ==
  LET g == GetAccount(accts, client_id)
  IN  [account |-> IF g.found THEN g.account ELSE AccountNew(client_id),
       accounts |-> g.accounts]

\* ------------------------------------------------------------ transactions
\* an insert that keeps the record already stored under the id
Insert_KeepExisting(trs, id, rec) ==
  [k \in DOMAIN trs \cup {id} |-> IF k \in DOMAIN trs THEN trs[k] ELSE rec]

\* HashMap::insert
Insert(trs, id, rec) ==
  [k \in DOMAIN trs \cup {id} |-> IF k = id THEN rec ELSE trs[k]]

\* HashMap::remove
MapRemove(trs, id) == [k \in DOMAIN trs \ {id} |-> trs[k]]

\* get_transaction_with_status without the comparison of the client ids
GetTransactionWithStatus_NoClientCheck(trs, acct, tx_id, desired_status) ==
  IF tx_id \in DOMAIN trs
  THEN LET target_tx == trs[tx_id]
           rest == MapRemove(trs, tx_id)
       IN  IF desired_status # target_tx.status
           THEN [ok |-> FALSE, err |-> "not in desired state",
                 transactions |-> rest]
           ELSE [ok |-> TRUE, target_tx |-> target_tx, transactions |-> rest]
  ELSE [ok |-> FALSE, err |-> "not found", transactions |-> trs]

\* get_transaction_with_status: the record is removed from the map before the
\* client and the status are compared
GetTransactionWithStatus(trs, acct, tx_id, desired_status) ==
  IF tx_id \in DOMAIN trs
  THEN LET target_tx == trs[tx_id]
           rest == MapRemove(trs, tx_id)
       IN  IF target_tx.tx.client_id # acct.client_id
           THEN [ok |-> FALSE, err |-> "does not have matching client id",
                 transactions |-> rest]
           ELSE IF desired_status # target_tx.status
           THEN [ok |-> FALSE, err |-> "not in desired state",
                 transactions |-> rest]
           ELSE [ok |-> TRUE, target_tx |-> target_tx, transactions |-> rest]
  ELSE [ok |-> FALSE, err |-> "not found", transactions |-> trs]

\* --------------------------------------------------------------------- state
NoTx == [tx_type |-> "none", client_id |-> 0, id |-> 0, amount |-> None]

Init ==
  /\ accounts = <<>>
  /\ transactions = <<>>
  /\ result = "running"
  /\ pos = 0
  /\ tx = NoTx
  /\ account = AccountNew(0)
  /\ stderr = ""
  /\ seen = {}
  /\ used = {}
  /\ unique = TRUE
  /\ report = <<>>

\* what the rows taken so far were: the clients they name, the ids of the
\* deposits and withdrawals among them, and whether no such id came twice
Consumed(t) ==
  /\ seen' = seen \cup {t.client_id}
  /\ used' = IF t.tx_type \in {"Deposit", "Withdrawal"}
             THEN used \cup {t.id} ELSE used
  /\ unique' = (unique /\ ~(t.tx_type \in {"Deposit", "Withdrawal"}
                             /\ t.id \in used))

\* batch_process takes the next transaction of batch_tx
Take(t) ==
  /\ result = "running"
  /\ pos' = pos + 1
  /\ tx' = t
  /\ account' = Fetch(accounts, t.client_id).account
  /\ Consumed(t)
  /\ UNCHANGED report

\* the missing amount reported but not returned: the loop goes on
MissingAmount_Continue(t) ==
  /\ accounts' = Fetch(accounts, t.client_id).accounts
  /\ result' = "running"
  /\ stderr' = ""
  /\ UNCHANGED transactions

\* the missing amount returned after the account is pushed back
MissingAmount_PushBack(t) ==
  /\ accounts' = Append(Fetch(accounts, t.client_id).accounts,
                        Fetch(accounts, t.client_id).account)
  /\ result' = INVALID_TRANSACTION_DATA_NO_AMOUNT
  /\ stderr' = ""
  /\ UNCHANGED transactions

\* the `?` on a missing amount: process_transaction returns before the push
\* of line 175, batch_process returns the error
MissingAmount(t) ==
  /\ accounts' = Fetch(accounts, t.client_id).accounts
  /\ result' = INVALID_TRANSACTION_DATA_NO_AMOUNT
  /\ stderr' = ""
  /\ UNCHANGED transactions

\* the Deposit arm with a guard that leaves a locked account alone
Deposit_RejectLocked(t) ==
  /\ t.tx_type = "Deposit"
  /\ Take(t)
  /\ LET f == Fetch(accounts, t.client_id)
         a == f.account
     IN  IF t.amount = None
         THEN MissingAmount(t)
         ELSE IF a.locked
         THEN /\ accounts' = Append(f.accounts, a)
              /\ stderr' = ""
              /\ UNCHANGED <<transactions, result>>
         ELSE /\ accounts' = Append(f.accounts,
                   [a EXCEPT !.available = F32(a.available + Unwrap(t.amount)),
                             !.total = F32(a.total + Unwrap(t.amount))])
              /\ transactions' =
                   Insert(transactions, t.id, [tx |-> t, status |-> "Processed"])
              /\ stderr' = "" /\ UNCHANGED result

Deposit(t) ==
  /\ t.tx_type = "Deposit"
  /\ Take(t)
  /\ LET f == Fetch(accounts, t.client_id)
         a == f.account
     IN  IF t.amount = None
         THEN MissingAmount(t)
         ELSE /\ accounts' = Append(f.accounts,
                   [a EXCEPT !.available = F32(a.available + Unwrap(t.amount)),
                             !.total = F32(a.total + Unwrap(t.amount))])
              /\ transactions' =
                   Insert(transactions, t.id, [tx |-> t, status |-> "Processed"])
              /\ stderr' = "" /\ UNCHANGED result

\* the Withdrawal arm without the comparison with the available funds
Withdrawal_NoFundsCheck(t) ==
  /\ t.tx_type = "Withdrawal"
  /\ Take(t)
  /\ LET f == Fetch(accounts, t.client_id)
         a == f.account
     IN  IF t.amount = None
         THEN MissingAmount(t)
         ELSE /\ accounts' = Append(f.accounts,
                   [a EXCEPT !.available = F32(a.available - Unwrap(t.amount)),
                             !.total = F32(a.total - Unwrap(t.amount))])
              /\ transactions' =
                   Insert(transactions, t.id, [tx |-> t, status |-> "Processed"])
              /\ stderr' = "" /\ UNCHANGED result

Withdrawal(t) ==
  /\ t.tx_type = "Withdrawal"
  /\ Take(t)
  /\ LET f == Fetch(accounts, t.client_id)
         a == f.account
     IN  IF t.amount = None
         THEN MissingAmount(t)
         ELSE IF Unwrap(t.amount) <= a.available
         THEN /\ accounts' = Append(f.accounts,
                   [a EXCEPT !.available = F32(a.available - Unwrap(t.amount)),
                             !.total = F32(a.total - Unwrap(t.amount))])
              /\ transactions' =
                   Insert(transactions, t.id, [tx |-> t, status |-> "Processed"])
              /\ stderr' = "" /\ UNCHANGED result
         ELSE /\ accounts' = Append(f.accounts, a)
              /\ stderr' = ""
              /\ UNCHANGED <<transactions, result>>

\* the Err arm of the three lookups: eprintln, then the push of line 175
LookupFailed(f, g) ==
  /\ accounts' = Append(f.accounts, f.account)
  /\ transactions' = g.transactions
  /\ stderr' = g.err
  /\ UNCHANGED result

\* the Dispute arm storing the Dispute row itself in place of the record
Dispute_StoreDisputeRow(t) ==
  /\ t.tx_type = "Dispute"
  /\ Take(t)
  /\ LET f == Fetch(accounts, t.client_id)
         a == f.account
         g == GetTransactionWithStatus(transactions, a, t.id, "Processed")
     IN  IF g.ok
         THEN LET tx_amount == Unwrap(g.target_tx.tx.amount)
              IN  /\ accounts' = Append(f.accounts,
                       [a EXCEPT !.held = F32(a.held + tx_amount),
                                 !.available = F32(a.available - tx_amount)])
                  /\ transactions' = Insert(g.transactions, t.id,
                       [tx |-> t, status |-> "Disputed"])
                  /\ stderr' = "" /\ UNCHANGED result
         ELSE LookupFailed(f, g)

Dispute(t) ==
  /\ t.tx_type = "Dispute"
  /\ Take(t)
  /\ LET f == Fetch(accounts, t.client_id)
         a == f.account
         g == GetTransactionWithStatus(transactions, a, t.id, "Processed")
     IN  IF g.ok
         THEN LET tx_amount == Unwrap(g.target_tx.tx.amount)
              IN  /\ accounts' = Append(f.accounts,
                       [a EXCEPT !.held = F32(a.held + tx_amount),
                                 !.available = F32(a.available - tx_amount)])
                  /\ transactions' = Insert(g.transactions, t.id,
                       [g.target_tx EXCEPT !.status = "Disputed"])
                  /\ stderr' = "" /\ UNCHANGED result
         ELSE LookupFailed(f, g)

Resolve(t) ==
  /\ t.tx_type = "Resolve"
  /\ Take(t)
  /\ LET f == Fetch(accounts, t.client_id)
         a == f.account
         g == GetTransactionWithStatus(transactions, a, t.id, "Disputed")
     IN  IF g.ok
         THEN LET tx_amount == Unwrap(g.target_tx.tx.amount)
              IN  /\ accounts' = Append(f.accounts,
                       [a EXCEPT !.held = F32(a.held - tx_amount),
                                 !.available = F32(a.available + tx_amount)])
                  /\ transactions' = Insert(g.transactions, t.id,
                       [g.target_tx EXCEPT !.status = "Processed"])
                  /\ stderr' = "" /\ UNCHANGED result
         ELSE LookupFailed(f, g)

\* the Chargeback arm that does not put the record back into the store
Chargeback_DropRecord(t) ==
  /\ t.tx_type = "Chargeback"
  /\ Take(t)
  /\ LET f == Fetch(accounts, t.client_id)
         a == f.account
         g == GetTransactionWithStatus(transactions, a, t.id, "Disputed")
     IN  IF g.ok
         THEN LET tx_amount == Unwrap(g.target_tx.tx.amount)
              IN  /\ accounts' = Append(f.accounts,
                       [a EXCEPT !.held = F32(a.held - tx_amount),
                                 !.total = F32(a.total - tx_amount),
                                 !.locked = TRUE])
                  /\ transactions' = g.transactions
                  /\ stderr' = "" /\ UNCHANGED result
         ELSE LookupFailed(f, g)

Chargeback(t) ==
  /\ t.tx_type = "Chargeback"
  /\ Take(t)
  /\ LET f == Fetch(accounts, t.client_id)
         a == f.account
         g == GetTransactionWithStatus(transactions, a, t.id, "Disputed")
     IN  IF g.ok
         THEN LET tx_amount == Unwrap(g.target_tx.tx.amount)
              IN  /\ accounts' = Append(f.accounts,
                       [a EXCEPT !.held = F32(a.held - tx_amount),
                                 !.total = F32(a.total - tx_amount),
                                 !.locked = TRUE])
                  /\ transactions' = Insert(g.transactions, t.id,
                       [g.target_tx EXCEPT !.status = "Processed"])
                  /\ stderr' = "" /\ UNCHANGED result
         ELSE LookupFailed(f, g)

\* batch_tx is exhausted: batch_process returns Ok(())
BatchEnd ==
  /\ result = "running"
  /\ result' = "Ok"
  /\ UNCHANGED <<accounts, transactions, pos, tx, account, stderr,
                 seen, used, unique, report>>

\* batches of at most MaxBatch rows over all clients
Next ==
  \/ \E t \in Transaction : pos < MaxBatch /\ Deposit(t)
  \/ \E t \in Transaction : pos < MaxBatch /\ Withdrawal(t)
  \/ \E t \in Transaction : pos < MaxBatch /\ Dispute(t)
  \/ \E t \in Transaction : pos < MaxBatch /\ Resolve(t)
  \/ \E t \in Transaction : pos < MaxBatch /\ Chargeback(t)
  \/ BatchEnd

Spec == Init /\ [][Next]_vars

\* batches of at most MaxBatchOneClient rows of client 1
NextOneClient ==
  \/ \E t \in TransactionOneClient : pos < MaxBatchOneClient /\ Deposit(t)
  \/ \E t \in TransactionOneClient : pos < MaxBatchOneClient /\ Withdrawal(t)
  \/ \E t \in TransactionOneClient : pos < MaxBatchOneClient /\ Dispute(t)
  \/ \E t \in TransactionOneClient : pos < MaxBatchOneClient /\ Resolve(t)
  \/ \E t \in TransactionOneClient : pos < MaxBatchOneClient /\ Chargeback(t)
  \/ BatchEnd

SpecOneClient == Init /\ [][NextOneClient]_vars

\* ------------------------------------------------ the program of main.rs
\* main.rs has its own Bank.  Its process_transaction takes the account out
\* of the vector (or makes a new one) and never pushes it back, and its
\* dispute arms take the record out of the map and never insert it again.

\* main.rs get_transaction: Err when the status IS the desired one
MainGetTransaction(trs, acct, tx_id, desired_status) ==
  IF tx_id \in DOMAIN trs
  THEN LET target_tx == trs[tx_id]
           rest == MapRemove(trs, tx_id)
       IN  IF target_tx.tx.client_id # acct.client_id
           THEN [ok |-> FALSE, err |-> "does not have matching client id",
                 transactions |-> rest]
           ELSE IF desired_status = target_tx.status
           THEN [ok |-> FALSE, err |-> "not in desired state",
                 transactions |-> rest]
           ELSE [ok |-> TRUE, target_tx |-> target_tx, transactions |-> rest]
  ELSE [ok |-> FALSE, err |-> "not found", transactions |-> trs]

\* ok_or("Invalid transaction data")?: batch_process returns the error, main
\* prints it and returns without a report
MainMissingAmount(t) ==
  /\ accounts' = Fetch(accounts, t.client_id).accounts
  /\ result' = "Invalid transaction data"
  /\ stderr' = "Invalid transaction data"
  /\ UNCHANGED transactions

MainDeposit(t) ==
  /\ t.tx_type = "Deposit"
  /\ Take(t)
  /\ IF t.amount = None
     THEN MainMissingAmount(t)
     ELSE /\ accounts' = Fetch(accounts, t.client_id).accounts
          /\ transactions' =
               Insert(transactions, t.id, [tx |-> t, status |-> "Processed"])
          /\ stderr' = "" /\ UNCHANGED result

MainWithdrawal(t) ==
  /\ t.tx_type = "Withdrawal"
  /\ Take(t)
  /\ LET f == Fetch(accounts, t.client_id)
     IN  IF t.amount = None
         THEN MainMissingAmount(t)
         ELSE IF Unwrap(t.amount) > f.account.available
         THEN /\ accounts' = f.accounts
              /\ stderr' = ""
              /\ UNCHANGED <<transactions, result>>
         ELSE /\ accounts' = f.accounts
              /\ transactions' =
                   Insert(transactions, t.id, [tx |-> t, status |-> "Processed"])
              /\ stderr' = "" /\ UNCHANGED result

\* the three lookup arms: the local account and the local record are changed
\* on Ok, and both are dropped at the end of the arm
MainLookupArm(t, desired_status) ==
  LET f == Fetch(accounts, t.client_id)
      g == MainGetTransaction(transactions, f.account, t.id, desired_status)
  IN  /\ accounts' = f.accounts
      /\ transactions' = g.transactions
      /\ stderr' = ""
      /\ UNCHANGED result

MainDispute(t) ==
  /\ t.tx_type = "Dispute"
  /\ Take(t)
  /\ MainLookupArm(t, "Processed")

MainResolve(t) ==
  /\ t.tx_type = "Resolve"
  /\ Take(t)
  /\ MainLookupArm(t, "Disputed")

MainChargeback(t) ==
  /\ t.tx_type = "Chargeback"
  /\ Take(t)
  /\ MainLookupArm(t, "Disputed")

\* main: batch_process returned Ok(()), print_report writes one row for each
\* account of the vector
MainPrintReport ==
  /\ result = "Ok"
  /\ report' = accounts
  /\ result' = "reported"
  /\ UNCHANGED <<accounts, transactions, pos, tx, account, stderr,
                 seen, used, unique>>

NextMain ==
  \/ \E t \in Transaction : pos < MaxBatch /\ MainDeposit(t)
  \/ \E t \in Transaction : pos < MaxBatch /\ MainWithdrawal(t)
  \/ \E t \in Transaction : pos < MaxBatch /\ MainDispute(t)
  \/ \E t \in Transaction : pos < MaxBatch /\ MainResolve(t)
  \/ \E t \in Transaction : pos < MaxBatch /\ MainChargeback(t)
  \/ BatchEnd
  \/ MainPrintReport

SpecMain == Init /\ [][NextMain]_vars

TypeOK ==
  /\ result \in {"running", "Ok", "reported",
                 INVALID_TRANSACTION_DATA_NO_AMOUNT, "Invalid transaction data"}
  /\ unique \in BOOLEAN
  /\ used \subseteq Nat
  /\ pos \in Nat
  /\ \A i \in 1..Len(accounts) : accounts[i].client_id \in ClientIds
  /\ DOMAIN transactions \subseteq Nat

\* ------------------------------------------------------- claim vocabulary
DisputeFamily == {"Dispute", "Resolve", "Chargeback"}

\* the status a lookup of this transaction type asks for
DesiredStatus(tx_type) == IF tx_type = "Dispute" THEN "Processed" ELSE "Disputed"

\* this step is process_transaction applied to tx'
Processes == pos' = pos + 1

HasAccount(accts, c) == Position(accts, c) # 0
Acct(accts, c) == accts[Position(accts, c)]

\* the records a lookup for transaction t does not accept
NoRecord(trs, t) == t.id \notin DOMAIN trs
OtherClient(trs, t) ==
  t.id \in DOMAIN trs /\ trs[t.id].tx.client_id # t.client_id
WrongStatus(trs, t) ==
  /\ t.id \in DOMAIN trs
  /\ trs[t.id].tx.client_id = t.client_id
  /\ trs[t.id].status # DesiredStatus(t.tx_type)
FailsLookup(trs, t) ==
  /\ t.tx_type \in DisputeFamily
  /\ NoRecord(trs, t) \/ OtherClient(trs, t) \/ WrongStatus(trs, t)
PassesLookup(trs, t, tx_type) ==
  /\ t.tx_type = tx_type
  /\ t.id \in DOMAIN trs
  /\ trs[t.id].tx.client_id = t.client_id
  /\ trs[t.id].status = DesiredStatus(tx_type)

AmountAbsent(t) == t.tx_type \in {"Deposit", "Withdrawal"} /\ t.amount = None

Locked(accts, c) ==
  \E i \in 1..Len(accts) : accts[i].client_id = c /\ accts[i].locked

\* ------------------------------------------------------------------ claims

\* C1: after each processed transaction every account of the ledger has
\* total == available + held (the equality as f32 evaluates it).
C1_TotalIsAvailablePlusHeld ==
  \A i \in 1..Len(accounts) :
    accounts[i].total = F32(accounts[i].available + accounts[i].held)

\* C2: a Dispute, Resolve or Chargeback whose lookup fails (no record,
\* record of another client, record in the wrong status) leaves the record
\* store as it was.
C2_FailedLookupKeepsStore ==
  [][(Processes /\ FailsLookup(transactions, tx'))
       => transactions' = transactions]_vars

\* C3: a Dispute, Resolve or Chargeback whose lookup fails changes no
\* existing account's available, held, total or locked, and batch_process
\* does not return an error: it goes on to the next transaction.
C3_FailedLookupKeepsAccounts ==
  [][(Processes /\ FailsLookup(transactions, tx'))
       => /\ \A i \in 1..Len(accounts) :
               /\ HasAccount(accounts', accounts[i].client_id)
               /\ Acct(accounts', accounts[i].client_id) = accounts[i]
          /\ Len(accounts') <= Len(accounts) + 1
          /\ result' = "running"]_vars

C3_Witness ==
  /\ stderr \in {"not found", "does not have matching client id",
                 "not in desired state"}
  /\ tx.tx_type \in DisputeFamily
  /\ result = "running"
  /\ Len(accounts) = 2
  /\ \A i \in 1..2 : accounts[i].total > 0

\* C4: batch_process stops at the first Deposit or Withdrawal without an
\* amount and returns "Invalid transaction data: missing amount"; every
\* transaction before it was processed with the loop still running, and no
\* step changes accounts or records once the error is returned.
C4_StopsAtFirstMissingAmount ==
  [][/\ result = "running"
     /\ Processes =>
          /\ (result' = INVALID_TRANSACTION_DATA_NO_AMOUNT) <=> AmountAbsent(tx')
          /\ ~AmountAbsent(tx') => result' = "running"
     /\ ~Processes => (result' = "Ok" /\ accounts' = accounts
                        /\ transactions' = transactions)]_vars

C4_Witness ==
  /\ result = INVALID_TRANSACTION_DATA_NO_AMOUNT
  /\ AmountAbsent(tx)
  /\ pos = 3
  /\ DOMAIN transactions = TxIds

\* C5: a Deposit or Withdrawal without an amount leaves the ledger as it was
\* just before it: same accounts with the same fields, same records.
C5_MissingAmountKeepsLedger ==
  [][(Processes /\ AmountAbsent(tx'))
       => /\ accounts' = accounts
          /\ transactions' = transactions]_vars

\* C6: a Dispute of client c for id i with a Processed record of c under i of
\* amount a takes exactly a from available, adds exactly a to held, leaves
\* total and locked alone and leaves the record under i, Disputed.
C6_DisputeMovesAmount ==
  [][(Processes /\ PassesLookup(transactions, tx', "Dispute"))
       => LET c == tx'.client_id
              a == Unwrap(transactions[tx'.id].tx.amount)
              before == Fetch(accounts, c).account
          IN  /\ HasAccount(accounts', c)
              /\ Acct(accounts', c).available = before.available - a
              /\ Acct(accounts', c).held = before.held + a
              /\ Acct(accounts', c).total = before.total
              /\ Acct(accounts', c).locked = before.locked
              /\ tx'.id \in DOMAIN transactions'
              /\ transactions'[tx'.id] =
                   [transactions[tx'.id] EXCEPT !.status = "Disputed"]]_vars

\* C7: a successful Dispute of id i by client c immediately followed by a
\* Resolve of i by c gives c's account its values of before the dispute and
\* the record under i is Processed again.
C7_ResolveUndoesDispute ==
  [][(/\ tx.tx_type = "Dispute" /\ stderr = "" /\ result = "running"
      /\ Processes
      /\ tx'.tx_type = "Resolve"
      /\ tx'.client_id = tx.client_id
      /\ tx'.id = tx.id)
       => /\ HasAccount(accounts', tx.client_id)
          /\ Acct(accounts', tx.client_id) = account
          /\ tx.id \in DOMAIN transactions'
          /\ transactions'[tx.id].status = "Processed"]_vars

\* C8: a Chargeback of client c for id i with a Disputed record of c under i
\* of amount a takes exactly a from held and from total, leaves available
\* alone and sets locked.
C8_ChargebackRemovesAmount ==
  [][(Processes /\ PassesLookup(transactions, tx', "Chargeback"))
       => LET c == tx'.client_id
              a == Unwrap(transactions[tx'.id].tx.amount)
              before == Fetch(accounts, c).account
          IN  /\ HasAccount(accounts', c)
              /\ Acct(accounts', c).held = before.held - a
              /\ Acct(accounts', c).total = before.total - a
              /\ Acct(accounts', c).available = before.available
              /\ Acct(accounts', c).locked = TRUE]_vars

\* C9: once a client's account is locked it is locked in every later state.
C9_LockedIsPermanent ==
  [][\A c \in ClientIds : Locked(accounts, c) => Locked(accounts', c)]_vars

\* C10: a Withdrawal of more than the available funds returns no error,
\* leaves the account's available, held, total and locked as they were and
\* leaves every record, the one under the withdrawal's id included, alone.
C10_InsufficientFundsIsNoOp ==
  [][(/\ Processes
      /\ tx'.tx_type = "Withdrawal"
      /\ tx'.amount # None
      /\ Unwrap(tx'.amount) > Fetch(accounts, tx'.client_id).account.available)
       => /\ result' = "running"
          /\ HasAccount(accounts', tx'.client_id)
          /\ Acct(accounts', tx'.client_id) =
               Fetch(accounts, tx'.client_id).account
          /\ transactions' = transactions]_vars

C10_Witness ==
  /\ tx.tx_type = "Withdrawal"
  /\ tx.amount # None
  /\ Unwrap(tx.amount) > account.available
  /\ account.available > 0
  /\ result = "running"
  /\ tx.id \in DOMAIN transactions
  /\ transactions[tx.id].tx # tx

\* the account of the client of the row this step processes, before the step
Before == Fetch(accounts, tx'.client_id).account

HasAmount(t, tx_type) == t.tx_type = tx_type /\ t.amount # None

\* C11: a Withdrawal of amount a is applied exactly when a <= available; it
\* then takes exactly a from available and from total, leaves held and
\* locked alone and stores the withdrawal under its id, Processed.
C11_WithdrawalTakesAmount ==
  [][(Processes /\ HasAmount(tx', "Withdrawal"))
       => LET c == tx'.client_id
              a == Unwrap(tx'.amount)
          IN  /\ HasAccount(accounts', c)
              /\ IF a <= Before.available
                 THEN /\ Acct(accounts', c).available = Before.available - a
                      /\ Acct(accounts', c).total = Before.total - a
                      /\ Acct(accounts', c).held = Before.held
                      /\ Acct(accounts', c).locked = Before.locked
                      /\ tx'.id \in DOMAIN transactions'
                      /\ transactions'[tx'.id] =
                           [tx |-> tx', status |-> "Processed"]
                 ELSE /\ Acct(accounts', c) = Before
                      /\ transactions' = transactions]_vars

\* C12: a Deposit of amount a adds exactly a to available and to total,
\* leaves held and locked alone and stores the deposit under its id,
\* Processed; a client not seen before gets available = a, held = 0,
\* total = a, locked = false.
C12_DepositAddsAmount ==
  [][(Processes /\ HasAmount(tx', "Deposit"))
       => LET c == tx'.client_id
              a == Unwrap(tx'.amount)
          IN  /\ HasAccount(accounts', c)
              /\ Acct(accounts', c).available = Before.available + a
              /\ Acct(accounts', c).total = Before.total + a
              /\ Acct(accounts', c).held = Before.held
              /\ Acct(accounts', c).locked = Before.locked
              /\ tx'.id \in DOMAIN transactions'
              /\ transactions'[tx'.id] = [tx |-> tx', status |-> "Processed"]
              /\ c \notin seen =>
                   Acct(accounts', c) =
                     [client_id |-> c, available |-> a, held |-> 0,
                      total |-> a, locked |-> FALSE]]_vars

\* C13 as claimed: a Deposit or Withdrawal without amount for a client not
\* seen before leaves an account for that client, with zero balances and
\* locked = false.
C13_MalformedRowCreatesAccount ==
  [][(Processes /\ AmountAbsent(tx') /\ tx'.client_id \notin seen)
       => /\ HasAccount(accounts', tx'.client_id)
          /\ Acct(accounts', tx'.client_id) = AccountNew(tx'.client_id)]_vars

\* C13 as amended: a Deposit or Withdrawal without amount for a client not
\* seen before leaves no account for that client: the ledger keeps the
\* accounts it had.
C13_MalformedRowCreatesNoAccount ==
  [][(Processes /\ AmountAbsent(tx') /\ tx'.client_id \notin seen)
       => /\ ~HasAccount(accounts', tx'.client_id)
          /\ accounts' = accounts]_vars

C13_Witness ==
  /\ result = INVALID_TRANSACTION_DATA_NO_AMOUNT
  /\ AmountAbsent(tx)
  /\ pos = 2
  /\ Len(accounts) = 1
  /\ accounts[1].client_id # tx.client_id
  /\ accounts[1].total > 0

ClientsOf(accts) == {accts[i].client_id : i \in 1..Len(accts)}

\* C14: there are never two accounts with the same client_id, and while no
\* fatal error was returned the ledger holds exactly one account for each
\* client named by a row processed so far and none for any other client.
C14_OneAccountPerSeenClient ==
  /\ \A i, j \in 1..Len(accounts) :
       accounts[i].client_id = accounts[j].client_id => i = j
  /\ result \in {"running", "Ok"} => ClientsOf(accounts) = seen

C14_Witness ==
  /\ result = "running"
  /\ pos = 3
  /\ Len(accounts) = 2
  /\ stderr = "not found"
  /\ HasAccount(accounts, tx.client_id)
  /\ Acct(accounts, tx.client_id) = AccountNew(tx.client_id)
  /\ \E i \in 1..2 : accounts[i].total > 0

\* the status stored under id i differs before and after this step
StatusGoes(i, from, to) ==
  /\ i \in DOMAIN transactions
  /\ i \in DOMAIN transactions'
  /\ transactions[i].status = from
  /\ transactions'[i].status = to

\* this step processes a row of one of these types for id i, sent by the
\* client that owns the record stored under i
ByOwner(i, types) ==
  /\ Processes
  /\ tx'.tx_type \in types
  /\ tx'.id = i
  /\ tx'.client_id = transactions[i].tx.client_id

\* C15 as claimed: the status under an id goes from Processed to Disputed
\* only through a Dispute by the owner, from Disputed to Processed only
\* through a Resolve or Chargeback by the owner, and through nothing else.
C15_OnlyLegalTransitions ==
  [][\A i \in DOMAIN transactions :
       /\ StatusGoes(i, "Processed", "Disputed") => ByOwner(i, {"Dispute"})
       /\ StatusGoes(i, "Disputed", "Processed") =>
            ByOwner(i, {"Resolve", "Chargeback"})]_vars

\* this step stores the row it processes, a Deposit or Withdrawal with its
\* amount, under id i as a new Processed record
Overwrites(i) ==
  /\ Processes
  /\ tx'.tx_type \in {"Deposit", "Withdrawal"}
  /\ tx'.amount # None
  /\ tx'.id = i
  /\ transactions'[i] = [tx |-> tx', status |-> "Processed"]

\* C15 as amended: the status under an id goes from Processed to Disputed
\* only through a Dispute by the owner; it goes from Disputed to Processed
\* only through a Resolve or Chargeback by the owner, or through a Deposit or
\* applied Withdrawal that reuses the id and stores its own Processed record.
C15_LegalTransitionsOrOverwrite ==
  [][\A i \in DOMAIN transactions :
       /\ StatusGoes(i, "Processed", "Disputed") => ByOwner(i, {"Dispute"})
       /\ StatusGoes(i, "Disputed", "Processed") =>
            \/ ByOwner(i, {"Resolve", "Chargeback"})
            \/ Overwrites(i)]_vars

C15_Witness ==
  /\ pos = 3
  /\ tx.tx_type \in {"Resolve", "Chargeback"}
  /\ stderr = ""
  /\ result = "running"
  /\ tx.id \in DOMAIN transactions
  /\ transactions[tx.id].status = "Processed"
  /\ transactions[tx.id].tx.client_id = tx.client_id
  /\ account.held > 0

\* the rules of the five transaction types on an account a, in f32: the
\* account after a row t that is applied, given the record store trs
Effect(a, t, trs) ==
  LET amt == IF t.tx_type \in {"Deposit", "Withdrawal"}
             THEN Unwrap(t.amount) ELSE Unwrap(trs[t.id].tx.amount)
  IN  CASE t.tx_type = "Deposit" ->
             [a EXCEPT !.available = F32(@ + amt), !.total = F32(@ + amt)]
        [] t.tx_type = "Withdrawal" ->
             [a EXCEPT !.available = F32(@ - amt), !.total = F32(@ - amt)]
        [] t.tx_type = "Dispute" ->
             [a EXCEPT !.available = F32(@ - amt), !.held = F32(@ + amt)]
        [] t.tx_type = "Resolve" ->
             [a EXCEPT !.available = F32(@ + amt), !.held = F32(@ - amt)]
        [] t.tx_type = "Chargeback" ->
             [a EXCEPT !.held = F32(@ - amt), !.total = F32(@ - amt),
                       !.locked = TRUE]

\* the record stored under t.id after a row t that is applied
RecordAfter(t, trs) ==
  CASE t.tx_type \in {"Deposit", "Withdrawal"} ->
         [tx |-> t, status |-> "Processed"]
    [] t.tx_type = "Dispute" -> [trs[t.id] EXCEPT !.status = "Disputed"]
    [] t.tx_type \in {"Resolve", "Chargeback"} ->
         [trs[t.id] EXCEPT !.status = "Processed"]

\* row t is applied to account a: a Deposit with its amount, a Withdrawal
\* with its amount and sufficient funds, or a lookup that succeeds
Applies(a, t, trs) ==
  \/ HasAmount(t, "Deposit")
  \/ HasAmount(t, "Withdrawal") /\ Unwrap(t.amount) <= a.available
  \/ \E ty \in DisputeFamily : PassesLookup(trs, t, ty)

\* C16: a Deposit, or a Withdrawal with sufficient funds, whose id already
\* has a record (of any owner, in any status) raises no error, updates the
\* balances by the usual rule, and the record under the id becomes the new
\* transaction, Processed; the other records stay.
C16_DuplicateIdLastWriteWins ==
  [][(/\ Processes
      /\ tx'.tx_type \in {"Deposit", "Withdrawal"}
      /\ Applies(Before, tx', transactions)
      /\ tx'.id \in DOMAIN transactions)
       => /\ result' = "running"
          /\ HasAccount(accounts', tx'.client_id)
          /\ Acct(accounts', tx'.client_id) = Effect(Before, tx', transactions)
          /\ transactions' =
               [transactions EXCEPT ![tx'.id] =
                  [tx |-> tx', status |-> "Processed"]]]_vars

C16_Witness ==
  /\ pos = 3
  /\ HasAmount(tx, "Deposit")
  /\ result = "running"
  /\ DOMAIN transactions = {tx.id}
  /\ transactions[tx.id] = [tx |-> tx, status |-> "Processed"]
  /\ \E i \in 1..Len(accounts) :
       /\ accounts[i].client_id # tx.client_id
       /\ accounts[i].held > 0

\* C17: on a locked account every applied row changes the balances and the
\* records by the same rule as on an unlocked account: the account after the
\* row is the one the rule gives for the unlocked account, with locked set.
C17_LockedAccountStaysMutable ==
  [][(Processes /\ Applies(Before, tx', transactions))
       => /\ HasAccount(accounts', tx'.client_id)
          /\ ~Before.locked =>
               Acct(accounts', tx'.client_id) =
                 Effect(Before, tx', transactions)
          /\ Before.locked =>
               Acct(accounts', tx'.client_id) =
                 [Effect([Before EXCEPT !.locked = FALSE], tx', transactions)
                    EXCEPT !.locked = TRUE]
          /\ tx'.id \in DOMAIN transactions'
          /\ transactions'[tx'.id] = RecordAfter(tx', transactions)]_vars

C17_Witness ==
  /\ account.locked
  /\ result = "running"
  /\ stderr = ""
  /\ HasAmount(tx, "Deposit")
  /\ HasAccount(accounts, tx.client_id)
  /\ Acct(accounts, tx.client_id).available > account.available
  /\ transactions[tx.id] = [tx |-> tx, status |-> "Processed"]

\* C18: in a batch whose Deposit/Withdrawal ids are unique (amounts are
\* positive throughout), a successful Dispute, Resolve or Chargeback on an
\* account whose held and available are non-negative leaves both
\* non-negative.
C18_DisputeCycleKeepsNonNegative ==
  [][(/\ Processes
      /\ unique'
      /\ \E ty \in DisputeFamily : PassesLookup(transactions, tx', ty)
      /\ Before.held >= 0
      /\ Before.available >= 0)
       => /\ HasAccount(accounts', tx'.client_id)
          /\ Acct(accounts', tx'.client_id).held >= 0
          /\ Acct(accounts', tx'.client_id).available >= 0]_vars

C20_RecordsAreOriginals ==
  \A i \in DOMAIN transactions :
    /\ transactions[i].tx.tx_type \in {"Deposit", "Withdrawal"}
    /\ transactions[i].tx.amount # None
    /\ transactions[i].tx.id = i
    /\ transactions[i].status \in TransactionStatus

C20_Witness ==
  /\ tx.tx_type = "Dispute"
  /\ stderr = ""
  /\ result = "running"
  /\ tx.id \in DOMAIN transactions
  /\ transactions[tx.id].status = "Disputed"
  /\ transactions[tx.id].tx.tx_type = "Deposit"
  /\ HasAccount(accounts, tx.client_id)
  /\ Acct(accounts, tx.client_id).held = Unwrap(transactions[tx.id].tx.amount)

\* the Dispute row of the client and id of row t
DisputeOf(t) == [t EXCEPT !.tx_type = "Dispute", !.amount = None]

\* C21: a successful Chargeback puts the record back with status Processed,
\* so the lookup of a Dispute of the same id by the same client passes again;
\* and every successful Dispute and Chargeback, on an account a Chargeback
\* has locked before as on any other, moves the amount by the rule of its
\* arm (the Chargeback takes it from held and total once more).
C21_ChargebackCanRepeat ==
  [][/\ (Processes /\ PassesLookup(transactions, tx', "Chargeback"))
          => /\ stderr' = ""
             /\ tx'.id \in DOMAIN transactions'
             /\ transactions'[tx'.id] =
                  [transactions[tx'.id] EXCEPT !.status = "Processed"]
             /\ PassesLookup(transactions', DisputeOf(tx'), "Dispute")
             /\ HasAccount(accounts', tx'.client_id)
             /\ Acct(accounts', tx'.client_id) =
                  Effect(Before, tx', transactions)
     /\ (Processes /\ PassesLookup(transactions, tx', "Dispute"))
          => /\ stderr' = ""
             /\ transactions'[tx'.id] =
                  [transactions[tx'.id] EXCEPT !.status = "Disputed"]
             /\ PassesLookup(transactions', [tx' EXCEPT !.tx_type = "Chargeback"],
                             "Chargeback")
             /\ Acct(accounts', tx'.client_id) =
                  Effect(Before, tx', transactions)]_vars

\* the second Chargeback of one deposit has acted: the account was locked
\* before it, and total is the deposit's amount below zero
C21_Witness ==
  /\ tx.tx_type = "Chargeback"
  /\ stderr = ""
  /\ result = "running"
  /\ account.locked
  /\ account.held = Unwrap(transactions[tx.id].tx.amount)
  /\ account.total = 0
  /\ transactions[tx.id].status = "Processed"
  /\ HasAccount(accounts, tx.client_id)
  /\ Acct(accounts, tx.client_id).held = 0
  /\ Acct(accounts, tx.client_id).total = 0 - Unwrap(transactions[tx.id].tx.amount)

\* the sum of the amounts of the records of client c, among the ids given,
\* that are in status Disputed
RECURSIVE SumDisputed(_, _, _)
SumDisputed(trs, ids, c) ==
  IF ids = {} THEN 0
  ELSE LET i == CHOOSE k \in ids : TRUE
           r == trs[i]
       IN  (IF r.tx.client_id = c /\ r.status = "Disputed"
            THEN Unwrap(r.tx.amount) ELSE 0)
           + SumDisputed(trs, ids \ {i}, c)

\* C22: while no Deposit/Withdrawal id came twice, the held of every account
\* is the sum of the amounts of its client's records in status Disputed.
C22_HeldIsSumOfDisputed ==
  unique =>
    \A i \in 1..Len(accounts) :
      accounts[i].held =
        SumDisputed(transactions, DOMAIN transactions, accounts[i].client_id)

\* C23: a row of client c leaves the accounts of the other clients as they
\* are: none appears, none disappears, and available, held, total and locked
\* of each stay the same, whatever the row's type and outcome.
C23_OtherAccountsUntouched ==
  [][Processes =>
       \A c \in ClientIds \ {tx'.client_id} :
         /\ HasAccount(accounts', c) <=> HasAccount(accounts, c)
         /\ HasAccount(accounts, c) => Acct(accounts', c) = Acct(accounts, c)]_vars

\* a Dispute of one client has moved funds while another client, whose
\* account stands before it in the vector, holds a balance
C23_Witness ==
  /\ tx.tx_type = "Dispute"
  /\ stderr = ""
  /\ result = "running"
  /\ Len(accounts) = 2
  /\ accounts[1].client_id # tx.client_id
  /\ accounts[1].available > 0
  /\ accounts[2].client_id = tx.client_id
  /\ accounts[2].held > 0
  /\ accounts[2] # account
====
